---- MODULE Spec2Model ----
(***************************************************************************)
(* The quiz and practice-test tabs of src/AI.py (a Streamlit script).      *)
(*                                                                         *)
(* A Streamlit script is re-executed from top to bottom on every user      *)
(* interaction.  One action of this model is one such run: the button      *)
(* handler (if a button was pressed), the render loops and the grading     *)
(* loops, in script order, up to the first uncaught exception.             *)
(*                                                                         *)
(* Python values are tagged records; Python strings are sequences of       *)
(* one-character strings so that strip() and lower() are computed.  JSON   *)
(* numbers are outside the modelled value domain.  Question labels and     *)
(* the "type" tag are only ever compared for identity and are kept atomic. *)
(***************************************************************************)
EXTENDS Integers, Sequences, FiniteSets, TLC

VARIABLES
    session_state,  \* st.session_state: quiz, user_answers, practice_test, practice_answers
    widget_state,   \* the framework's per-key widget values (st.radio / st.text_input / st.text_area)
    rendered,       \* keys of the widgets the last run put on the page
    buttons,        \* buttons the last run put on the page
    gen_msg,        \* st.success / st.error of a generation handler in the last run
    report,         \* per-question messages and final score written by a submit in the last run
    uncaught        \* the exception that stopped the last run, "none" if it completed

vars == <<session_state, widget_state, rendered, buttons, gen_msg, report, uncaught>>

\* ---------------------------------------------------------------- bounds
MaxQuizLen == 2      \* most items in a generated quiz
MaxTestLen == 2      \* most items in a generated practice test
MaxGradeLen == 2     \* most items in a set handed to a grading loop on its own

\* ---------------------------------------------------------------- values
None == [t |-> "none"]
Str(s) == [t |-> "str", s |-> s]
Bool(b) == [t |-> "bool", b |-> b]
List(xs) == [t |-> "list", xs |-> xs]

isinstance_str(v) == v.t = "str"

\* Python == on the modelled values: values of different types are unequal.
PyEq(a, b) == a.t = b.t /\ a = b

\* str(v)
PyStr(v) ==
    CASE v.t = "str" -> v.s
      [] v.t = "bool" -> IF v.b THEN <<"T", "r", "u", "e">> ELSE <<"F", "a", "l", "s", "e">>
      [] v.t = "none" -> <<"N", "o", "n", "e">>

LowerChar(c) ==
    CASE c = "P" -> "p"
      [] c = "R" -> "r"
      [] c = "N" -> "n"
      [] c = "T" -> "t"
      [] c = "F" -> "f"
      [] OTHER -> c

\* s.lower()
lower(s) == [i \in 1..Len(s) |-> LowerChar(s[i])]

IsSpace(c) == c = " "

RECURSIVE lstrip(_)
lstrip(s) == IF s # <<>> /\ IsSpace(Head(s)) THEN lstrip(Tail(s)) ELSE s

RECURSIVE rstrip(_)
rstrip(s) ==
    IF s # <<>> /\ IsSpace(s[Len(s)]) THEN rstrip(SubSeq(s, 1, Len(s) - 1)) ELSE s

\* s.strip()
strip(s) == rstrip(lstrip(s))

\* ---------------------------------------------------------------- dicts
HasKey(d, k) == k \in DOMAIN d
Put(d, k, v) == [x \in DOMAIN d \cup {k} |-> IF x = k THEN v ELSE d[x]]
\* d.get(k)
Get(d, k) == IF k \in DOMAIN d THEN d[k] ELSE None
EmptyDict == <<>>
Restrict(d, ks) == [x \in DOMAIN d \cap ks |-> d[x]]

\* ---------------------------------------------------------------- widgets
\* The framework identifies a widget by its key and its parameters (label,
\* options).  A widget keeps its value from run to run while both are the
\* same; otherwise it starts from its default (the first option of a radio,
\* the empty text of a text control).
WidgetId(kind, label, options) == <<kind, label, options>>

RadioDefault(options) == IF options = <<>> THEN None ELSE options[1]

WidgetValue(ws, key, id, default) ==
    IF HasKey(ws, key) /\ ws[key].id = id THEN ws[key].value ELSE default

\* st.radio(label, options, key=key): the selected option
st_radio(ws, key, label, options) ==
    LET id == WidgetId("radio", label, options)
        v == WidgetValue(ws, key, id, RadioDefault(options))
    IN [value |-> v, ws |-> Put(ws, key, [id |-> id, value |-> v])]

\* st.text_input(label, key=key) and st.text_area(label, key=key): the typed text
st_text(kind, ws, key, label) ==
    LET id == WidgetId(kind, label, <<>>)
        v == WidgetValue(ws, key, id, Str(<<>>))
    IN [value |-> v, ws |-> Put(ws, key, [id |-> id, value |-> v])]

\* ---------------------------------------------------------------- run state
\* The state threaded through one run of the script.
NoReport == [kind |-> "none", verdicts |-> <<>>, done |-> FALSE, correct |-> 0, total |-> 0]

StartRun(ss, ws) ==
    [ss |-> ss, ws |-> ws, keys |-> {}, buttons |-> {"create_quiz"},
     gen |-> "none", report |-> NoReport, exc |-> "none"]

Raise(m, e) == [m EXCEPT !.exc = e]

\* ---------------------------------------------------------------- completion call
\* ask_openrouter: raises on a non-2xx status or a body without choices,
\* otherwise returns the assistant's text.
ask_openrouter(resp) ==
    IF resp.kind = "http_error" THEN [raised |-> TRUE, text |-> None]
    ELSE IF resp.kind = "no_choices" THEN [raised |-> TRUE, text |-> None]
    ELSE [raised |-> FALSE, text |-> resp.text]

\* json.loads(text): the text either parses to a JSON object or raises.
json_loads(text) ==
    IF text.parses THEN [raised |-> FALSE, data |-> text.doc]
    ELSE [raised |-> TRUE, data |-> EmptyDict]

\* ---------------------------------------------------------------- quiz tab
QuizLabel == "Choose an answer:"

\* CreateQuiz with a handler that clears the quiz when the generation fails.
CreateQuiz_ClearsOnFailure(m, resp) ==
    LET r == ask_openrouter(resp)
        j == json_loads(r.text)
        failed == [m EXCEPT !.ss = Put(Put(@, "quiz", List(<<>>)), "user_answers", EmptyDict),
                            !.gen = "quiz_failed"]
    IN  IF r.raised THEN failed
        ELSE IF j.raised THEN failed
        ELSE IF ~HasKey(j.data, "multiple_choice") THEN failed
        ELSE [m EXCEPT !.ss = Put(Put(@, "quiz", j.data["multiple_choice"]),
                                  "user_answers", EmptyDict),
                       !.gen = "quiz_ok"]

\* The try block of the Create Quiz handler.
CreateQuiz(m, resp) ==
    LET r == ask_openrouter(resp)
        j == json_loads(r.text)
    IN  IF r.raised THEN [m EXCEPT !.gen = "quiz_failed"]
        ELSE IF j.raised THEN [m EXCEPT !.gen = "quiz_failed"]
        ELSE IF ~HasKey(j.data, "multiple_choice") THEN [m EXCEPT !.gen = "quiz_failed"]
        ELSE [m EXCEPT !.ss = Put(Put(@, "quiz", j.data["multiple_choice"]),
                                  "user_answers", EmptyDict),
                       !.gen = "quiz_ok"]

\* One iteration of the quiz render loop (i is the 0-based index).
RenderQuizItem(m, i, q) ==
    IF ~HasKey(q, "question") THEN Raise(m, "KeyError")
    ELSE IF ~HasKey(q, "options") THEN Raise(m, "KeyError")
    ELSE LET key == <<"q", i>>
             r == st_radio(m.ws, key, QuizLabel, q["options"])
         IN [m EXCEPT !.ws = r.ws,
                      !.keys = @ \cup {key},
                      !.ss = Put(@, "user_answers", Put(@["user_answers"], i, r.value))]

RECURSIVE RenderQuizFrom(_, _)
RenderQuizFrom(m, i) ==
    LET quiz == m.ss["quiz"].xs
    IN  IF i >= Len(quiz) \/ m.exc # "none" THEN m
        ELSE RenderQuizFrom(RenderQuizItem(m, i, quiz[i + 1]), i + 1)

\* for i, q in enumerate(st.session_state.quiz): ...
RenderQuiz(m) ==
    IF m.ss["quiz"].t # "list" THEN Raise(m, "TypeError")
    ELSE RenderQuizFrom(m, 0)

\* GradeQuizItem comparing after strip() and lower(), as the practice test does.
GradeQuizItem_Normalized(r, i, q, answers) ==
    LET user_ans == Get(answers, i)
    IN  IF ~HasKey(q, "answer") THEN [r EXCEPT !.exc = "KeyError"]
        ELSE IF \/ PyEq(user_ans, q["answer"])
                \/ /\ q["answer"].t = "str"
                   /\ lower(strip(PyStr(user_ans))) = lower(strip(q["answer"].s))
             THEN [r EXCEPT !.verdicts = Append(@, "correct"), !.correct = @ + 1]
             ELSE [r EXCEPT !.verdicts = Append(@, "wrong")]

\* One iteration of the Submit Quiz loop.
GradeQuizItem(r, i, q, answers) ==
    LET user_ans == Get(answers, i)
    IN  IF ~HasKey(q, "answer") THEN [r EXCEPT !.exc = "KeyError"]
        ELSE IF PyEq(user_ans, q["answer"])
             THEN [r EXCEPT !.verdicts = Append(@, "correct"), !.correct = @ + 1]
             ELSE [r EXCEPT !.verdicts = Append(@, "wrong")]

RECURSIVE GradeQuizFrom(_, _, _, _)
GradeQuizFrom(r, i, quiz, answers) ==
    IF r.exc # "none" THEN r
    ELSE IF i >= Len(quiz) THEN [r EXCEPT !.done = TRUE]
    ELSE GradeQuizFrom(GradeQuizItem(r, i, quiz[i + 1], answers), i + 1, quiz, answers)

\* The body of `if st.button("Submit Quiz")`.
GradeQuiz(quiz, answers) ==
    GradeQuizFrom([kind |-> "quiz", verdicts |-> <<>>, done |-> FALSE, correct |-> 0,
                   total |-> Len(quiz), exc |-> "none"], 0, quiz, answers)

ReportOf(r) ==
    [kind |-> r.kind, verdicts |-> r.verdicts, done |-> r.done,
     correct |-> r.correct, total |-> r.total]

\* SubmitQuiz that empties the answers once the quiz is graded.
SubmitQuiz_ClearsAnswers(m) ==
    LET r == GradeQuiz(m.ss["quiz"].xs, m.ss["user_answers"])
    IN [m EXCEPT !.report = ReportOf(r), !.exc = r.exc,
                 !.ss = Put(@, "user_answers", EmptyDict)]

SubmitQuiz(m) ==
    LET r == GradeQuiz(m.ss["quiz"].xs, m.ss["user_answers"])
    IN [m EXCEPT !.report = ReportOf(r), !.exc = r.exc]

\* with tabs[0]: the whole quiz tab of one run.
QuizTab(m, press, resp) ==
    LET a == IF press = "create_quiz" THEN CreateQuiz(m, resp) ELSE m
        b == IF HasKey(a.ss, "quiz") THEN RenderQuiz(a) ELSE a
        c == IF HasKey(a.ss, "quiz") /\ b.exc = "none"
             THEN [b EXCEPT !.buttons = @ \cup {"submit_quiz"}] ELSE b
    IN  IF HasKey(a.ss, "quiz") /\ c.exc = "none" /\ press = "submit_quiz"
        THEN SubmitQuiz(c) ELSE c

\* ---------------------------------------------------------------- practice test tab
GradedTypes == {"multiple_choice", "true_false", "fill_blank"}

\* The try block of the Create Practice Test handler.
CreatePracticeTest(m, resp) ==
    LET r == ask_openrouter(resp)
        j == json_loads(r.text)
    IN  IF r.raised THEN [m EXCEPT !.gen = "practice_failed"]
        ELSE IF j.raised THEN [m EXCEPT !.gen = "practice_failed"]
        ELSE IF ~HasKey(j.data, "practice_test") THEN [m EXCEPT !.gen = "practice_failed"]
        ELSE [m EXCEPT !.ss = Put(Put(@, "practice_test", j.data["practice_test"]),
                                  "practice_answers", EmptyDict),
                       !.gen = "practice_ok"]

\* st.session_state.practice_answers[i] = <widget value>
StoreAnswer(m, key, r, i) ==
    [m EXCEPT !.ws = r.ws,
              !.keys = @ \cup {key},
              !.ss = Put(@, "practice_answers", Put(@["practice_answers"], i, r.value))]

\* One iteration of the practice-test render loop.
RenderPracticeItem(m, i, q) ==
    IF ~HasKey(q, "type") THEN Raise(m, "KeyError")
    ELSE IF q["type"] \notin GradedTypes \cup {"open_question"} THEN m
    ELSE IF ~HasKey(q, "question") THEN Raise(m, "KeyError")
    ELSE IF q["type"] = "multiple_choice" THEN
        IF ~HasKey(q, "options") THEN Raise(m, "KeyError")
        ELSE StoreAnswer(m, <<"pt_mc", i>>,
                         st_radio(m.ws, <<"pt_mc", i>>, q["question"], q["options"]), i)
    ELSE IF q["type"] = "true_false" THEN
        StoreAnswer(m, <<"pt_tf", i>>,
                    st_radio(m.ws, <<"pt_tf", i>>, q["question"],
                             <<Bool(TRUE), Bool(FALSE)>>), i)
    ELSE IF q["type"] = "fill_blank" THEN
        StoreAnswer(m, <<"pt_fb", i>>,
                    st_text("text_input", m.ws, <<"pt_fb", i>>, q["question"]), i)
    ELSE LET key == <<"pt_oq", i>>
             r == st_text("text_area", m.ws, key, q["question"])
         IN [m EXCEPT !.ws = r.ws, !.keys = @ \cup {key}]

RECURSIVE RenderPracticeFrom(_, _)
RenderPracticeFrom(m, i) ==
    LET test == m.ss["practice_test"].xs
    IN  IF i >= Len(test) \/ m.exc # "none" THEN m
        ELSE RenderPracticeFrom(RenderPracticeItem(m, i, test[i + 1]), i + 1)

RenderPractice(m) ==
    IF m.ss["practice_test"].t # "list" THEN Raise(m, "TypeError")
    ELSE RenderPracticeFrom(m, 0)

\* The comparison of the Submit Practice Test loop.
is_correct(user_ans, correct_ans) ==
    IF isinstance_str(correct_ans)
    THEN lower(strip(PyStr(user_ans))) = lower(strip(correct_ans.s))
    ELSE PyEq(user_ans, correct_ans)

\* GradePracticeItem with total += 1 ahead of the type test, so that
\* open questions are counted.
GradePracticeItem_CountsOpen(r, i, q, answers) ==
    IF ~HasKey(q, "type") THEN [r EXCEPT !.exc = "KeyError"]
    ELSE IF q["type"] \in GradedTypes THEN
        LET user_ans == Get(answers, i)
        IN  IF ~HasKey(q, "answer") THEN [r EXCEPT !.total = @ + 1, !.exc = "KeyError"]
            ELSE IF is_correct(user_ans, q["answer"])
                 THEN [r EXCEPT !.total = @ + 1, !.verdicts = Append(@, "correct"),
                                !.correct = @ + 1]
                 ELSE [r EXCEPT !.total = @ + 1, !.verdicts = Append(@, "wrong")]
    ELSE IF q["type"] = "open_question"
         THEN [r EXCEPT !.total = @ + 1, !.verdicts = Append(@, "open")]
    ELSE [r EXCEPT !.verdicts = Append(@, "no_message")]

\* One iteration of the Submit Practice Test loop.  An item of any other type
\* writes no message; "no_message" keeps the verdicts aligned with the items.
GradePracticeItem(r, i, q, answers) ==
    IF ~HasKey(q, "type") THEN [r EXCEPT !.exc = "KeyError"]
    ELSE IF q["type"] \in GradedTypes THEN
        LET user_ans == Get(answers, i)
        IN  IF ~HasKey(q, "answer") THEN [r EXCEPT !.total = @ + 1, !.exc = "KeyError"]
            ELSE IF is_correct(user_ans, q["answer"])
                 THEN [r EXCEPT !.total = @ + 1, !.verdicts = Append(@, "correct"),
                                !.correct = @ + 1]
                 ELSE [r EXCEPT !.total = @ + 1, !.verdicts = Append(@, "wrong")]
    ELSE IF q["type"] = "open_question" THEN [r EXCEPT !.verdicts = Append(@, "open")]
    ELSE [r EXCEPT !.verdicts = Append(@, "no_message")]

RECURSIVE GradePracticeFrom(_, _, _, _)
GradePracticeFrom(r, i, test, answers) ==
    IF r.exc # "none" THEN r
    ELSE IF i >= Len(test) THEN [r EXCEPT !.done = TRUE]
    ELSE GradePracticeFrom(GradePracticeItem(r, i, test[i + 1], answers), i + 1, test, answers)

\* The body of `if st.button("Submit Practice Test")`.
GradePracticeTest(test, answers) ==
    GradePracticeFrom([kind |-> "practice", verdicts |-> <<>>, done |-> FALSE, correct |-> 0,
                       total |-> 0, exc |-> "none"], 0, test, answers)

SubmitPracticeTest(m) ==
    LET r == GradePracticeTest(m.ss["practice_test"].xs, m.ss["practice_answers"])
    IN [m EXCEPT !.report = ReportOf(r), !.exc = r.exc]

\* with tabs[2]: the whole practice-test tab of one run.
PracticeTab(m, press, resp) ==
    LET m0 == [m EXCEPT !.buttons = @ \cup {"create_practice"}]
        a == IF press = "create_practice" THEN CreatePracticeTest(m0, resp) ELSE m0
        b == IF HasKey(a.ss, "practice_test") THEN RenderPractice(a) ELSE a
        c == IF HasKey(a.ss, "practice_test") /\ b.exc = "none"
             THEN [b EXCEPT !.buttons = @ \cup {"submit_practice"}] ELSE b
    IN  IF HasKey(a.ss, "practice_test") /\ c.exc = "none" /\ press = "submit_practice"
        THEN SubmitPracticeTest(c) ELSE c

\* ---------------------------------------------------------------- one run
\* A run that completes forgets the widgets it did not render; a run stopped by
\* an uncaught exception keeps the widget values it found.
EndRun(m) ==
    IF m.exc = "none" THEN [m EXCEPT !.ws = Restrict(@, m.keys)] ELSE m

\* The script from top to bottom; an uncaught exception stops it where it is raised.
RunScript(ss, ws, press, resp) ==
    LET q == QuizTab(StartRun(ss, ws), press, resp)
        p == IF q.exc = "none" THEN PracticeTab(q, press, resp) ELSE q
    IN EndRun(p)

Page(m) ==
    /\ session_state' = m.ss
    /\ widget_state' = m.ws
    /\ rendered' = m.keys
    /\ buttons' = m.buttons
    /\ gen_msg' = m.gen
    /\ report' = m.report
    /\ uncaught' = m.exc

\* ---------------------------------------------------------------- inputs
sParis == <<"P", "a", "r", "i", "s">>
sparis == <<"p", "a", "r", "i", "s">>
sPari == <<"P", "a", "r", "i">>
sRome == <<"R", "o", "m", "e">>
sPadded == <<" ", "p", "a", "r", "i", "s", " ">>

FourOptions == <<Str(sParis), Str(sparis), Str(sRome), Str(sPari)>>
TwoOptions == <<Str(<<"A">>), Str(<<"B">>)>>

\* Items a completion can return for the quiz prompt: two well-formed ones that
\* share their options, and two malformed shapes the parser lets through.
QuizCatalogue ==
    << [question |-> "Q1", options |-> FourOptions, answer |-> Str(sParis)],
       [question |-> "Q2", options |-> TwoOptions, answer |-> Str(<<"C">>)],
       [question |-> "Q3", answer |-> Str(<<"A">>)],
       [question |-> "Q4", options |-> FourOptions, answer |-> Str(sRome)] >>

\* Items a completion can return for the practice-test prompt: one of each
\* type, and a true_false item without its answer.
TestCatalogue ==
    << [type |-> "multiple_choice", question |-> "P1", options |-> FourOptions,
        answer |-> Str(sParis)],
       [type |-> "open_question", question |-> "P2"],
       [type |-> "true_false", question |-> "P3", answer |-> Bool(TRUE)],
       [type |-> "fill_blank", question |-> "P4", answer |-> Str(sParis)],
       [type |-> "true_false", question |-> "P5"] >>

\* The runs of at most n consecutive catalogue items, and the empty list.
Windows(cat, n) ==
    {SubSeq(cat, a, b) : a \in 1..Len(cat), b \in 0..Len(cat)} \cap
    UNION {[1..k -> {cat[i] : i \in 1..Len(cat)}] : k \in 0..n}

Text(doc) == [parses |-> TRUE, doc |-> doc]
Completion(text) == [kind |-> "text", text |-> text]

QuizDocs ==
    {[multiple_choice |-> List(xs)] : xs \in Windows(QuizCatalogue, MaxQuizLen)}
TestDocs ==
    {[practice_test |-> List(xs)] : xs \in Windows(TestCatalogue, MaxTestLen)}
        \cup {[practice_test |-> None]}

\* A call that fails, text that is not JSON, and JSON without the expected field.
Failures ==
    {[kind |-> "http_error"], [kind |-> "no_choices"], Completion([parses |-> FALSE]),
     Completion(Text([questions |-> List(<<>>)]))}

\* What the completion endpoint can answer to each prompt.
QuizResponses == Failures \cup {Completion(Text(d)) : d \in QuizDocs}
TestResponses == Failures \cup {Completion(Text(d)) : d \in TestDocs}

NoResponse == [kind |-> "http_error"]

\* What the user can type into a text control.
TypedTexts == {Str(<<>>), Str(sPadded)}

\* The values the user can give the control with this key.
Choices(ws, key) ==
    IF ws[key].id[1] = "radio"
    THEN {ws[key].id[3][i] : i \in 1..Len(ws[key].id[3])}
    ELSE TypedTexts

\* ---------------------------------------------------------------- session
\* The first run of the script on an empty session.
FirstRun == RunScript(EmptyDict, EmptyDict, "none", NoResponse)

Init ==
    /\ session_state = FirstRun.ss
    /\ widget_state = FirstRun.ws
    /\ rendered = FirstRun.keys
    /\ buttons = FirstRun.buttons
    /\ gen_msg = FirstRun.gen
    /\ report = FirstRun.report
    /\ uncaught = FirstRun.exc

PressCreateQuiz ==
    /\ "create_quiz" \in buttons
    /\ \E resp \in QuizResponses :
        Page(RunScript(session_state, widget_state, "create_quiz", resp))

PressSubmitQuiz ==
    /\ "submit_quiz" \in buttons
    /\ Page(RunScript(session_state, widget_state, "submit_quiz", NoResponse))

PressCreatePracticeTest ==
    /\ "create_practice" \in buttons
    /\ \E resp \in TestResponses :
        Page(RunScript(session_state, widget_state, "create_practice", resp))

PressSubmitPracticeTest ==
    /\ "submit_practice" \in buttons
    /\ Page(RunScript(session_state, widget_state, "submit_practice", NoResponse))

\* The user changes the value of a control on the page; the script reruns.
Answer ==
    \E key \in rendered :
        \E v \in Choices(widget_state, key) :
            /\ v # widget_state[key].value
            /\ Page(RunScript(session_state,
                              [widget_state EXCEPT ![key].value = v], "none", NoResponse))

\* Any other interaction (editing the notes, the Feynman and Summary tabs)
\* reruns the script with none of the four buttons pressed.
Rerun ==
    /\ "create_quiz" \in buttons
    /\ Page(RunScript(session_state, widget_state, "none", NoResponse))

Next ==
    \/ PressCreateQuiz
    \/ PressSubmitQuiz
    \/ PressCreatePracticeTest
    \/ PressSubmitPracticeTest
    \/ Answer
    \/ Rerun

Spec == Init /\ [][Next]_vars

\* ---------------------------------------------------------------- the grading loops alone
\* The two grading loops as functions of (questions, answers): every question
\* list over the pools below and every answer dict over its indices, including
\* dicts with no entry at an index and entries holding None.
sNone == <<"N", "o", "n", "e">>
sTrue == <<"T", "r", "u", "e">>

GradeQuizItems ==
    { [question |-> "Q", options |-> FourOptions, answer |-> Str(sParis)],
      [question |-> "Q", options |-> FourOptions, answer |-> None],
      [question |-> "Q", options |-> FourOptions] }

GradeTestItems ==
    { [type |-> "multiple_choice", question |-> "P", options |-> FourOptions,
       answer |-> Str(sParis)],
      [type |-> "open_question", question |-> "P"],
      [type |-> "true_false", question |-> "P", answer |-> Bool(TRUE)],
      [type |-> "true_false", question |-> "P", answer |-> Str(sTrue)],
      [type |-> "fill_blank", question |-> "P", answer |-> Str(sParis)],
      [type |-> "fill_blank", question |-> "P", answer |-> Str(sNone)] }

QuizAnswerValues == {Str(sParis), Str(sparis), Str(sPadded), None}
TestAnswerValues == {Str(sPadded), Str(sPari), Bool(TRUE), Bool(FALSE), None}

SeqsUpTo(S, n) == UNION {[1..k -> S] : k \in 0..n}

\* Every dict from some of the indices 0..n-1 to the given values.
AnswerDicts(n, values) == UNION {[D -> values] : D \in SUBSET (0..(n - 1))}

GradeInputs ==
    {[quiz |-> List(xs), user_answers |-> a] :
        xs \in SeqsUpTo(GradeQuizItems, MaxGradeLen),
        a \in AnswerDicts(MaxGradeLen, QuizAnswerValues)}
    \cup
    {[practice_test |-> List(xs), practice_answers |-> a] :
        xs \in SeqsUpTo(GradeTestItems, MaxGradeLen),
        a \in AnswerDicts(MaxGradeLen, TestAnswerValues)}

InitGrade ==
    /\ session_state \in GradeInputs
    /\ \/ HasKey(session_state, "quiz")
          /\ DOMAIN session_state["user_answers"] \subseteq 0..(Len(session_state["quiz"].xs) - 1)
       \/ HasKey(session_state, "practice_test")
          /\ DOMAIN session_state["practice_answers"]
                \subseteq 0..(Len(session_state["practice_test"].xs) - 1)
    /\ widget_state = EmptyDict
    /\ rendered = {}
    /\ buttons = {"create_quiz"}
    /\ gen_msg = "none"
    /\ report = NoReport
    /\ uncaught = "none"

\* The Submit Quiz loop on the given quiz and answers.
GradeQuizStep ==
    /\ HasKey(session_state, "quiz")
    /\ Page(SubmitQuiz(StartRun(session_state, widget_state)))

\* The Submit Practice Test loop on the given test and answers.
GradePracticeStep ==
    /\ HasKey(session_state, "practice_test")
    /\ Page(SubmitPracticeTest(StartRun(session_state, widget_state)))

NextGrade == GradeQuizStep \/ GradePracticeStep

SpecGrade == InitGrade /\ [][NextGrade]_vars

\* ---------------------------------------------------------------- properties
Installed(kind) == HasKey(session_state, kind) /\ session_state[kind].t = "list"
Quiz == session_state["quiz"].xs
Test == session_state["practice_test"].xs
UserAnswers == session_state["user_answers"]
PracticeAnswers == session_state["practice_answers"]

QuizPart(ss) == Restrict(ss, {"quiz", "user_answers"})
PracticePart(ss) == Restrict(ss, {"practice_test", "practice_answers"})

IsGraded(q) == HasKey(q, "type") /\ q["type"] \in GradedTypes
Among(v, options) == \E k \in 1..Len(options) : options[k] = v
CountOf(verdicts, v) == Cardinality({i \in 1..Len(verdicts) : verdicts[i] = v})

\* C1: a generation action that fails (the completion call raises, the text is
\* not JSON, or the expected field is absent) leaves the session state, the
\* question set and the answers of both kinds, exactly as it was.
C1_FailedGenerationKeepsState ==
    [][gen_msg' \in {"quiz_failed", "practice_failed"} => session_state' = session_state]_vars

C1_Witness ==
    /\ gen_msg \in {"quiz_failed", "practice_failed"}
    /\ Installed("quiz") /\ Installed("practice_test")
    /\ UserAnswers # EmptyDict /\ PracticeAnswers # EmptyDict

C3_OpenQuestionsNotCounted ==
    (report.kind = "practice" /\ report.done) =>
        /\ Len(report.verdicts) = Len(Test)
        /\ report.total = Cardinality({i \in 1..Len(Test) : IsGraded(Test[i])})
        /\ report.correct =
            Cardinality({i \in 1..Len(Test) :
                            IsGraded(Test[i]) /\ report.verdicts[i] = "correct"})
        /\ \A i \in 1..Len(Test) :
            Test[i]["type"] = "open_question" => report.verdicts[i] = "open"

C3_Witness ==
    /\ report.kind = "practice" /\ report.done
    /\ report.total = 1 /\ report.correct = 1 /\ Len(Test) = 2
    /\ \E i \in 1..Len(Test) :
        Test[i]["type"] = "open_question" /\ HasKey(PracticeAnswers, i - 1)

\* Two values are the same value; for strings, the same characters in the same
\* order, with no change of case and no trimming.
ExactlyEqual(u, c) ==
    IF c.t = "str"
    THEN u.t = "str" /\ Len(u.s) = Len(c.s) /\ \A k \in 1..Len(c.s) : u.s[k] = c.s[k]
    ELSE u.t = c.t /\ u = c

\* C4: Submit Quiz marks an answered index correct exactly when the answer is
\* exactly equal to the question's answer (case and whitespace count); correct
\* is the number of indices marked correct and total the number of questions.
C4_QuizExactEquality ==
    (report.kind = "quiz" /\ report.done) =>
        /\ Len(report.verdicts) = Len(Quiz)
        /\ report.total = Len(Quiz)
        /\ report.correct = CountOf(report.verdicts, "correct")
        /\ \A i \in 1..Len(Quiz) :
            HasKey(UserAnswers, i - 1) =>
                (report.verdicts[i] = "correct"
                    <=> ExactlyEqual(UserAnswers[i - 1], Quiz[i]["answer"]))

C4_Witness ==
    /\ report.kind = "quiz" /\ report.done /\ Len(Quiz) = 2
    /\ report.correct = 1 /\ report.total = 2
    /\ \E i, j \in 1..Len(Quiz) :
        /\ Quiz[i]["answer"] = Str(sParis) /\ Quiz[j]["answer"] = Str(sParis)
        /\ HasKey(UserAnswers, i - 1) /\ UserAnswers[i - 1] = Str(sParis)
        /\ HasKey(UserAnswers, j - 1) /\ UserAnswers[j - 1] = Str(sparis)
        /\ report.verdicts[i] = "correct" /\ report.verdicts[j] = "wrong"

SameAfterTrimIgnoringCase(a, b) == lower(strip(a)) = lower(strip(b))

DefaultQuizAnswers(quiz) == [i \in 0..(Len(quiz) - 1) |-> RadioDefault(quiz[i + 1]["options"])]

DefaultPracticeAnswer(q) ==
    CASE q["type"] = "multiple_choice" -> RadioDefault(q["options"])
      [] q["type"] = "true_false" -> Bool(TRUE)
      [] q["type"] = "fill_blank" -> Str(<<>>)

\* C6: a successful generation installs the new set with no answer carried over
\* from the previous set of that kind (its answers are those of untouched
\* controls), and leaves the set and the answers of the other kind unchanged.
C6_GenerationResetsAnswers ==
    [][/\ gen_msg' = "quiz_ok" =>
            /\ PracticePart(session_state') = PracticePart(session_state)
            /\ \A i \in DOMAIN session_state'["user_answers"] :
                session_state'["user_answers"][i]
                    = RadioDefault(session_state'["quiz"].xs[i + 1]["options"])
       /\ gen_msg' = "practice_ok" =>
            /\ QuizPart(session_state') = QuizPart(session_state)
            /\ \A i \in DOMAIN session_state'["practice_answers"] :
                session_state'["practice_answers"][i]
                    = DefaultPracticeAnswer(session_state'["practice_test"].xs[i + 1])
      ]_vars

\* C7: no run ends in an uncaught exception.
C7_NoUncaughtError == uncaught = "none"

\* C8: every multiple_choice item of an installed set has exactly 4 options
\* and an answer that is one of them.
WellFormedChoice(q) ==
    /\ HasKey(q, "options") /\ Len(q["options"]) = 4
    /\ HasKey(q, "answer") /\ Among(q["answer"], q["options"])

C8_FourOptionsAnswerAmong ==
    /\ Installed("quiz") => \A i \in 1..Len(Quiz) : WellFormedChoice(Quiz[i])
    /\ Installed("practice_test") =>
        \A i \in 1..Len(Test) :
            (HasKey(Test[i], "type") /\ Test[i]["type"] = "multiple_choice")
                => WellFormedChoice(Test[i])

\* C9: a submit changes no question set and no answers, and a second submit of
\* the same kind right after the first writes the same report.
C9_SubmitIdempotent ==
    [][report'.kind # "none" =>
            /\ session_state' = session_state
            /\ (report.kind = report'.kind => (report' = report /\ uncaught' = uncaught))
      ]_vars

C9_Witness ==
    /\ report.kind = "practice" /\ report.done
    /\ report.total = 2 /\ report.correct = 1
    /\ Installed("quiz") /\ UserAnswers # EmptyDict

\* C10: when a submit grades, the answers hold an entry for every quiz index
\* and for every multiple_choice, true_false and fill_blank index of the
\* practice test; and a submit right after a generation, with no control
\* touched, grades the default value of every control.
WellFormedQuiz(quiz) == \A i \in 1..Len(quiz) : WellFormedChoice(quiz[i])

C10_SubmitGradesRenderedAnswers ==
    [][/\ report'.kind = "quiz" =>
            \A i \in 1..Len(session_state'["quiz"].xs) :
                HasKey(session_state'["user_answers"], i - 1)
       /\ report'.kind = "practice" =>
            \A i \in 1..Len(session_state'["practice_test"].xs) :
                IsGraded(session_state'["practice_test"].xs[i])
                    => HasKey(session_state'["practice_answers"], i - 1)
       /\ (gen_msg = "quiz_ok" /\ report'.kind = "quiz" /\ WellFormedQuiz(Quiz)) =>
            report' = ReportOf(GradeQuiz(Quiz, DefaultQuizAnswers(Quiz)))
      ]_vars

====
